---- MODULE Spec2Model ----
(***************************************************************************)
(* pygccxml/declarations/type_traits.py: the type traits, the              *)
(* convertibility test (is_convertible) and the copy-semantics analysis    *)
(* (is_noncopyable), over a declaration store of classes and enumerations. *)
(*                                                                         *)
(* A type expression is a non-empty sequence of layers: the compound       *)
(* wrappers from the outside in, then the leaf.  `.base` is Tail.          *)
(***************************************************************************)
EXTENDS Integers, Sequences, FiniteSets, TLC

VARIABLES decls,      \* the declaration store: class name -> class_t record
          stack,      \* frames of the nested is_convertible calls, top last
          ret,        \* value handed back by the call that just returned
          call,       \* operands of the outermost is_convertible call
          result,     \* outcome of the outermost is_convertible call
          nc_query,   \* class last passed to is_noncopyable
          nc_result,  \* what is_noncopyable returned for nc_query
          operand,    \* type expression handed to a trait
          trait,      \* name of the trait last applied to operand
          returned,   \* what that trait returned, or that it raised
          held,       \* the caller's operands of is_convertible as they are now
          global_ns   \* the smart pointer declaration and the global namespace

vars == <<decls, stack, ret, call, result, nc_query, nc_result, operand, trait, returned, held, global_ns>>

-----------------------------------------------------------------------------
(* cpptypes: the type expression model                                      *)

Layer(cls, size, declaration) ==
    [cls |-> cls, size |-> size, declaration |-> declaration]

FundamentalClasses ==
    {"void_t", "bool_t", "char_t", "signed_char_t", "unsigned_char_t", "wchar_t",
     "short_int_t", "short_unsigned_int_t", "int_t", "unsigned_int_t",
     "long_int_t", "long_unsigned_int_t", "long_long_int_t",
     "long_long_unsigned_int_t", "int128_t", "uint128_t",
     "float_t", "double_t", "long_double_t"}

CalldefTypeClasses ==
    {"free_function_type_t", "member_function_type_t", "member_variable_type_t"}

CompoundClasses ==
    {"const_t", "volatile_t", "pointer_t", "reference_t", "array_t"}

fundamental_t(kind) == <<Layer(kind, 0, "")>>
calldef_type_t(kind) == <<Layer(kind, 0, "")>>
declarated_t(declaration) == <<Layer("declarated_t", 0, declaration)>>
const_t(base) == <<Layer("const_t", 0, "")>> \o base
volatile_t(base) == <<Layer("volatile_t", 0, "")>> \o base
pointer_t(base) == <<Layer("pointer_t", 0, "")>> \o base
reference_t(base) == <<Layer("reference_t", 0, "")>> \o base
array_t(base, size) == <<Layer("array_t", size, "")>> \o base
typedef_t(name, base) == <<Layer("typedef_t", 0, name)>> \o base

int_t == fundamental_t("int_t")
void_t == fundamental_t("void_t")

\* issubclass(a, b) over the class names of cpptypes
issubclass(a, b) ==
    \/ a = b
    \/ b = "fundamental_t" /\ a \in FundamentalClasses
    \/ b = "calldef_type_t" /\ a \in CalldefTypeClasses
    \/ b = "compound_t" /\ a \in CompoundClasses

\* isinstance(type_, cls)
isinstance(type_, cls) == issubclass(type_[1].cls, cls)

\* compound_t.base / array_t.size / declarated_t.declaration
base(type_) == Tail(type_)

-----------------------------------------------------------------------------
(* type_traits_utils                                                        *)

\* typedef layers are transparent
remove_alias(type_) == SelectSeq(type_, LAMBDA l : l.cls # "typedef_t")

\* the list [tp, tp.base, tp.base.base, ...] down to the leaf
decompose_type(tp) ==
    LET t == remove_alias(tp)
    IN  [i \in 1..Len(t) |-> SubSeq(t, i, Len(t))]

base_type(type_) ==
    LET types == decompose_type(type_) IN types[Len(types)]

-----------------------------------------------------------------------------
(* type_traits.py: classification and qualifier normalisation               *)

create_cv_types(b) ==
    <<b, const_t(b), volatile_t(b), volatile_t(const_t(b))>>

InList(x, list) == \E i \in 1..Len(list) : list[i] = x

does_match_definition(given, main, secondary) ==
    LET types == decompose_type(given)
        n == Len(types)
        classes == {types[i][1].cls : i \in 1..(IF n < 3 THEN n ELSE 3)}
        desired == {main} \cup secondary
        diff == (classes \ desired) \cup (desired \ classes)
    IN  IF isinstance(types[1], main) THEN TRUE
        ELSE IF /\ 2 <= n
                /\ \/ isinstance(types[1], main) /\ types[2][1].cls \in secondary
                   \/ isinstance(types[2], main) /\ types[1][1].cls \in secondary
             THEN TRUE
        ELSE IF 3 <= n
             THEN IF diff = {} THEN TRUE
                  ELSE IF Cardinality(diff) = 2
                       THEN \E a, b \in diff :
                               a # b /\ (issubclass(a, b) \/ issubclass(b, a))
                       ELSE FALSE
        ELSE FALSE

IntegralClasses ==
    <<"char_t", "unsigned_char_t", "signed_char_t", "wchar_t", "short_int_t",
      "short_unsigned_int_t", "bool_t", "int_t", "unsigned_int_t", "long_int_t",
      "long_unsigned_int_t", "long_long_int_t", "long_long_unsigned_int_t",
      "int128_t", "uint128_t">>

FloatClasses == <<"float_t", "double_t", "long_double_t">>

\* the concatenation of create_cv_types(k) for the listed kinds k
RECURSIVE cv_types_of(_)
cv_types_of(classes) ==
    IF classes = <<>> THEN <<>>
    ELSE create_cv_types(fundamental_t(Head(classes))) \o cv_types_of(Tail(classes))

integral_def == cv_types_of(IntegralClasses)
float_def == cv_types_of(FloatClasses)

is_void(type_) == InList(remove_alias(type_), create_cv_types(void_t))

is_integral(type_) == InList(remove_alias(type_), integral_def)

\* is_floating_point without long double
is_floating_point_double(type_) ==
    InList(remove_alias(type_), cv_types_of(<<"float_t", "double_t">>))

is_floating_point(type_) == InList(remove_alias(type_), float_def)

is_arithmetic(type_) == is_integral(type_) \/ is_floating_point(type_)

is_pointer(type_) ==
    \/ does_match_definition(type_, "pointer_t", {"const_t", "volatile_t"})
    \/ does_match_definition(type_, "pointer_t", {"volatile_t", "const_t"})

is_fundamental(type_) ==
    \/ does_match_definition(type_, "fundamental_t", {"const_t", "volatile_t"})
    \/ does_match_definition(type_, "fundamental_t", {"volatile_t", "const_t"})

is_reference(type_) == isinstance(remove_alias(type_), "reference_t")

remove_reference(type_) ==
    LET nake_type == remove_alias(type_)
    IN  IF ~is_reference(nake_type) THEN type_ ELSE base(nake_type)

RECURSIVE is_const(_)
is_const(type_) ==
    LET nake_type == remove_alias(type_)
    IN  IF isinstance(nake_type, "const_t") THEN TRUE
        ELSE IF isinstance(nake_type, "volatile_t") THEN is_const(base(nake_type))
        ELSE IF isinstance(nake_type, "array_t") THEN is_const(base(nake_type))
        ELSE FALSE

RECURSIVE is_volatile(_)
is_volatile(type_) ==
    LET nake_type == remove_alias(type_)
    IN  IF isinstance(nake_type, "volatile_t") THEN TRUE
        ELSE IF isinstance(nake_type, "const_t") THEN is_volatile(base(nake_type))
        ELSE IF isinstance(nake_type, "array_t") THEN is_volatile(base(nake_type))
        ELSE FALSE

remove_const(type_) ==
    LET nake_type == remove_alias(type_)
    IN  IF ~is_const(nake_type) THEN type_
        ELSE IF isinstance(nake_type, "array_t")
             THEN LET is_v == is_volatile(nake_type)
                      result_type == IF is_v THEN base(base(base(nake_type)))
                                     ELSE base(base(nake_type))
                  IN  array_t(IF is_v THEN volatile_t(result_type) ELSE result_type,
                              nake_type[1].size)
        ELSE IF isinstance(nake_type, "volatile_t")
             THEN volatile_t(base(base(nake_type)))
        ELSE base(nake_type)

remove_volatile(type_) ==
    LET nake_type == remove_alias(type_)
    IN  IF ~is_volatile(nake_type) THEN type_
        ELSE IF isinstance(nake_type, "array_t")
             THEN LET is_c == is_const(nake_type)
                      base_type_ == IF is_c THEN base(base(base(nake_type)))
                                    ELSE base(base(nake_type))
                  IN  array_t(IF is_c THEN const_t(base_type_) ELSE base_type_,
                              nake_type[1].size)
        ELSE base(nake_type)

remove_cv(type_) ==
    LET nake_type == remove_alias(type_)
        r1 == IF is_const(nake_type) THEN remove_const(nake_type) ELSE nake_type
        r2 == IF is_volatile(r1) THEN remove_volatile(r1) ELSE r1
        r3 == IF is_const(r2) THEN remove_const(r2) ELSE r2
    IN  IF ~is_const(nake_type) /\ ~is_volatile(nake_type) THEN type_ ELSE r3

is_array(type_) ==
    isinstance(remove_cv(remove_reference(remove_alias(type_))), "array_t")

\* what a trait hands back: a type, a truth value, a number, or an exception
TypeValue(type_) == [kind |-> "type", type |-> type_, bool |-> FALSE, int |-> 0]
BoolValue(b) == [kind |-> "bool", type |-> <<>>, bool |-> b, int |-> 0]
IntValue(n) == [kind |-> "int", type |-> <<>>, bool |-> FALSE, int |-> n]
Raised == [kind |-> "error", type |-> <<>>, bool |-> FALSE, int |-> 0]
NoValue == [kind |-> "none", type |-> <<>>, bool |-> FALSE, int |-> 0]
\* a declaration handed back as it is, and Python's None
DeclarationValue(d) == [kind |-> "declaration", type |-> declarated_t(d), bool |-> FALSE, int |-> 0]
NoneValue == [kind |-> "None", type |-> <<>>, bool |-> FALSE, int |-> 0]
NoOperand == <<>>

\* remove_pointer that strips every pointer level, not one
RECURSIVE remove_pointer_every_level(_)
remove_pointer_every_level(type_) ==
    LET nake_type == remove_alias(type_)
    IN  IF ~isinstance(nake_type, "pointer_t") THEN type_
        ELSE IF isinstance(base(nake_type), "calldef_type_t") THEN type_
        ELSE remove_pointer_every_level(base(nake_type))

\* remove_pointer without the branch for pointers to callable types
remove_pointer_calldef(type_) ==
    LET nake_type == remove_alias(type_)
    IN  IF ~is_pointer(nake_type) THEN type_
        ELSE IF /\ isinstance(nake_type, "volatile_t")
                /\ isinstance(base(nake_type), "pointer_t")
             THEN volatile_t(base(base(nake_type)))
        ELSE IF /\ isinstance(nake_type, "const_t")
                /\ isinstance(base(nake_type), "pointer_t")
             THEN const_t(base(base(nake_type)))
        ELSE IF /\ isinstance(nake_type, "volatile_t")
                /\ isinstance(base(nake_type), "const_t")
                /\ isinstance(base(base(nake_type)), "pointer_t")
             THEN volatile_t(const_t(base(base(base(nake_type)))))
        ELSE base(nake_type)

remove_pointer(type_) ==
    LET nake_type == remove_alias(type_)
    IN  IF ~is_pointer(nake_type) THEN type_
        ELSE IF /\ isinstance(nake_type, "volatile_t")
                /\ isinstance(base(nake_type), "pointer_t")
             THEN volatile_t(base(base(nake_type)))
        ELSE IF /\ isinstance(nake_type, "const_t")
                /\ isinstance(base(nake_type), "pointer_t")
             THEN const_t(base(base(nake_type)))
        ELSE IF /\ isinstance(nake_type, "volatile_t")
                /\ isinstance(base(nake_type), "const_t")
                /\ isinstance(base(base(nake_type)), "pointer_t")
             THEN volatile_t(const_t(base(base(base(nake_type)))))
        ELSE IF isinstance(base(nake_type), "calldef_type_t") THEN type_
        ELSE base(nake_type)

\* array_size: the size, or the AssertionError when the type is no array
array_size(type_) ==
    LET nake_type == remove_cv(remove_reference(remove_alias(type_)))
    IN  IF isinstance(nake_type, "array_t") THEN IntValue(nake_type[1].size)
        ELSE Raised

\* array_item_type without remove_cv
array_item_type_qualified(type_) ==
    IF is_array(type_) THEN TypeValue(base(remove_alias(type_)))
    ELSE IF is_pointer(type_) THEN TypeValue(remove_pointer(type_))
    ELSE Raised

\* array_item_type: the item type, or the RuntimeError when the type is
\* neither an array nor a pointer
array_item_type(type_) ==
    IF is_array(type_) THEN TypeValue(base(remove_cv(remove_alias(type_))))
    ELSE IF is_pointer(type_) THEN TypeValue(remove_pointer(type_))
    ELSE Raised

-----------------------------------------------------------------------------
(* The declaration store: classes, enumerations, forward class declarations *)

ClassNames == {"D", "M", "B"}
EnumNames == {"E"}
\* forward class declarations (class_declaration_t) and the name each declares
ClassDeclarationName == [decl_D |-> "D", decl_U |-> "U"]
ClassDeclarations == DOMAIN ClassDeclarationName
NoneDecl == "None"

is_class_t(declaration) == declaration \in ClassNames
is_enumeration_t(declaration) == declaration \in EnumNames
is_class_declaration_t(declaration) == declaration \in ClassDeclarations

hierarchy_info_t(related_class, access_type) ==
    [related_class |-> related_class, access_type |-> access_type]

constructor_t(arguments, access_type, is_artificial) ==
    [arguments |-> arguments, access_type |-> access_type,
     is_artificial |-> is_artificial]

casting_operator_t(return_type) == [return_type |-> return_type]

member_t(access_type) == [access_type |-> access_type]

class_t(class_type, is_abstract, decl_string, bases, constructors, casting_operators, destructor, assign_operators, variables) ==
    [class_type |-> class_type, is_abstract |-> is_abstract,
     decl_string |-> decl_string, bases |-> bases,
     constructors |-> constructors, casting_operators |-> casting_operators,
     destructor |-> destructor, assign_operators |-> assign_operators,
     variables |-> variables]

\* class_t.recursive_bases: the bases, and the bases of the bases, each entry
\* carrying the access of its own inheritance edge
RECURSIVE bases_upto(_, _)
bases_upto(class_, depth) ==
    IF depth = 0 THEN {}
    ELSE decls[class_].bases \cup
         UNION {bases_upto(b.related_class, depth - 1) : b \in decls[class_].bases}

recursive_bases(class_) == bases_upto(class_, Cardinality(ClassNames))

\* scopedef.find_declaration(parent.declarations, name, decl_type=class_t)
find_class_by_class_declaration(class_decl) ==
    IF ClassDeclarationName[class_decl] \in ClassNames
    THEN ClassDeclarationName[class_decl] ELSE NoneDecl

-----------------------------------------------------------------------------
(* type_traits.py: traits over declarations                                 *)

\* what remove_declarated hands back: a declaration, or the type unchanged
Declaration(d) == [is_declaration |-> TRUE, declaration |-> d, type |-> <<>>]
Type(t) == [is_declaration |-> FALSE, declaration |-> "", type |-> t]

remove_declarated(type_) ==
    LET t == remove_alias(type_)
    IN  IF isinstance(t, "declarated_t") THEN Declaration(t[1].declaration)
        ELSE Type(t)

\* is_same that compares types but never declarations
is_same_types(type1, type2) ==
    /\ ~remove_declarated(type1).is_declaration
    /\ remove_declarated(type1) = remove_declarated(type2)

is_same(type1, type2) == remove_declarated(type1) = remove_declarated(type2)

is_void_pointer(type_) == is_same(type_, pointer_t(void_t))

\* declaration_xxx_traits: sequence = [remove_alias, remove_cv, remove_declarated]
apply_sequence(type_) == remove_declarated(remove_cv(remove_alias(type_)))

is_enum(type_) ==
    apply_sequence(type_).is_declaration
        /\ is_enumeration_t(apply_sequence(type_).declaration)

is_class(type_) ==
    apply_sequence(type_).is_declaration
        /\ is_class_t(apply_sequence(type_).declaration)

is_class_declaration(type_) ==
    apply_sequence(type_).is_declaration
        /\ is_class_declaration_t(apply_sequence(type_).declaration)

\* is_union that takes nothing for a union
is_union_never(class_) == FALSE

is_union(class_) == decls[class_].class_type = "union"

is_copy_constructor(args, parent) ==
    IF Len(args) # 1 THEN FALSE
    ELSE LET decl_type == args[1]
             un_aliased == remove_alias(base(decl_type))
         IN  IF ~isinstance(decl_type, "compound_t") THEN FALSE
             ELSE IF ~is_reference(decl_type) THEN FALSE
             ELSE IF ~is_const(base(decl_type)) THEN FALSE
             ELSE IF ~isinstance(base(un_aliased), "declarated_t") THEN FALSE
             ELSE base(un_aliased)[1].declaration = parent

\* class_t.find_copy_constructor: the copy constructors, in declaration order
find_copy_constructor(class_) ==
    SelectSeq(decls[class_].constructors,
              LAMBDA c : is_copy_constructor(c.arguments, class_))

\* the public copy constructor, or nothing
\* has_copy_constructor without the test of access_type
has_copy_constructor_any_access(class_) ==
    find_copy_constructor(class_) # <<>>

has_copy_constructor(class_) ==
    LET copy_constructor == find_copy_constructor(class_)
    IN  copy_constructor # <<>> /\ copy_constructor[1].access_type = "public"

has_destructor(class_) == decls[class_].destructor # <<>>

has_public_constructor(class_) ==
    SelectSeq(decls[class_].constructors,
              LAMBDA c : ~is_copy_constructor(c.arguments, class_)
                         /\ c.access_type = "public") # <<>>

has_public_assign(class_) ==
    SelectSeq(decls[class_].assign_operators,
              LAMBDA o : o.access_type = "public") # <<>>

has_public_destructor(class_) ==
    has_destructor(class_) /\ decls[class_].destructor[1].access_type = "public"

\* is_base_and_derived over the direct bases alone
is_base_and_derived_direct(based, derived) ==
    \E base_desc \in decls[derived].bases : base_desc.related_class = based

is_base_and_derived(based, derived) ==
    \E base_desc \in recursive_bases(derived) : base_desc.related_class = based

-----------------------------------------------------------------------------
(* type_traits.py: __is_convertible_t, the rules of is_convertible          *)
(* A rule that can raise yields "true", "false" or "error".                 *)

\* __normalize: a forward class declaration is replaced, in a clone of the
\* type, by the class definition found under the same name (or by None)
normalize(type_) ==
    LET t == remove_alias(type_)
        n == Len(t)
    IN  IF isinstance(base_type(t), "declarated_t")
           /\ is_class_declaration_t(t[n].declaration)
        THEN [t EXCEPT ![n].declaration = find_class_by_class_declaration(@)]
        ELSE t

\* __normalize writing into the type it was given
normalize_argument_in_place(type_) ==
    LET t == remove_alias(type_)
        cloned == FALSE
    IN  IF ~cloned /\ t = type_ THEN normalize(type_) ELSE type_

\* the caller's type_ after __normalize: the declaration found is written
\* into the clone, and into the caller's object only were no clone made of a
\* type that remove_alias hands back as it is
normalize_argument(type_) ==
    LET t == remove_alias(type_)
        cloned == TRUE
    IN  IF ~cloned /\ t = type_ THEN normalize(type_) ELSE type_

\* no smart pointer declaration, an empty global namespace
NoNamespace == [pointer |-> <<>>, declarations |-> <<>>]

test_trivial(source, target) ==
    IF is_same(source, target) THEN TRUE                        \* X => X
    ELSE IF is_const(target) /\ is_same(source, base(target))
         THEN TRUE                                              \* X => const X
    ELSE IF is_reference(target) /\ is_same(source, base(target))
         THEN TRUE                                              \* X => X&
    ELSE IF is_reference(target) /\ is_const(base(target))
            /\ is_same(source, base(base(target)))
         THEN TRUE                                              \* X => const X&
    ELSE IF is_same(target, pointer_t(void_t))
         THEN ~(is_integral(source) \/ is_enum(source))         \* X => void*
    ELSE IF is_pointer(source) /\ is_pointer(target)
            /\ is_const(base(target))
            /\ is_same(base(source), base(base(target)))
         THEN TRUE                                              \* X* => const X*
    ELSE IF is_reference(source) /\ is_reference(target)
            /\ is_const(base(target))
            /\ is_same(base(source), base(base(target)))
         THEN TRUE                                              \* X& => const X&
    ELSE IF ~is_const(source) /\ is_array(source) /\ is_pointer(target)
            /\ is_same(base_type(source), base(target))
         THEN TRUE                                              \* X[2] => X*
    ELSE IF is_array(source) /\ is_pointer(target) /\ is_const(base(target))
            /\ is_same(base_type(source), base(base(target)))
         THEN TRUE
    ELSE FALSE

is_calldef_type(type_) == type_[1].cls \in CalldefTypeClasses

test_pointer_to_func_or_mv__to__func_or_mv(source, target) ==
    \/ is_pointer(source) /\ is_reference(target)
          /\ is_calldef_type(base(target)) /\ is_same(base(source), base(target))
    \/ is_pointer(source) /\ is_calldef_type(target)
          /\ is_same(base(source), target)
    \/ is_pointer(target) /\ is_reference(source)
          /\ is_calldef_type(base(source)) /\ is_same(base(source), base(target))
    \/ is_pointer(target) /\ is_calldef_type(source)
          /\ is_same(base(target), source)

\* the shared ending of the four reference rules:
\*   if isinstance(target, declarated_t):
\*       assert isinstance(target.declaration, class_t)
\*       if has_copy_constructor(target.declaration): return True
\*   return False
copy_constructible_target(target) ==
    IF isinstance(target, "declarated_t")
    THEN IF ~is_class_t(target[1].declaration) THEN "error"
         ELSE IF has_copy_constructor(target[1].declaration) THEN "true"
         ELSE "false"
    ELSE "false"

test_const_x_ref__to__x(source, target) ==
    IF \/ ~is_reference(source)
       \/ ~is_const(base(source))
       \/ ~is_same(base(base(source)), target)
    THEN "false"
    ELSE IF is_fundamental(target) THEN "true"
    ELSE IF is_enum(target) THEN "true"
    ELSE copy_constructible_target(target)

test_ref_x__to__x(source, target) ==
    IF ~is_reference(source) \/ ~is_same(base(source), target) THEN "false"
    ELSE IF is_fundamental(target) THEN "true"
    ELSE IF is_enum(target) THEN "true"
    ELSE copy_constructible_target(target)

test_fundamental__to__fundamental(source, target) ==
    IF ~is_fundamental(base_type(source)) \/ ~is_fundamental(base_type(target))
    THEN FALSE
    ELSE IF is_void(base_type(source)) \/ is_void(base_type(target)) THEN FALSE
    ELSE IF is_fundamental(source) /\ is_fundamental(target) THEN TRUE
    ELSE IF ~is_pointer(source) /\ is_fundamental(target) THEN TRUE
    ELSE IF ~is_pointer(source) /\ is_const(target) /\ is_fundamental(base(target))
         THEN TRUE
    ELSE IF is_fundamental(source) /\ is_reference(target)
            /\ is_const(base(target)) /\ is_fundamental(base(base(target)))
         THEN TRUE                                              \* X => const Y&
    ELSE FALSE

is_both_declarated(x, y) ==
    isinstance(x, "declarated_t") /\ isinstance(y, "declarated_t")

\* x.base.base where x.base may be a leaf, which has no attribute `base`
has_base(type_) == isinstance(type_, "compound_t")

\* the shape tests of __test_derived_to_based, after the hierarchy test
derived_to_based_shapes(derived, based) ==
    IF is_both_declarated(based, derived) THEN "true"           \* d => b
    ELSE IF is_pointer(derived) /\ is_pointer(based)
            /\ is_both_declarated(base(based), base(derived))
         THEN "true"                                            \* d* => b*
    ELSE IF is_pointer(derived) /\ is_pointer(based)
            /\ is_const(base(derived)) /\ is_const(base(based))
            /\ is_both_declarated(base(base(based)), base(base(derived)))
         THEN "true"                                            \* const d* => const b*
    ELSE IF is_pointer(derived) /\ is_pointer(based)
            /\ is_const(base(derived)) /\ ~has_base(base(based))
         THEN "error"
    ELSE IF is_pointer(derived) /\ is_pointer(based)
            /\ is_const(base(derived))
            /\ is_both_declarated(base(base(based)), base(derived))
         THEN "true"                                            \* d* => const b*
    ELSE IF is_reference(derived) /\ is_reference(based)
            /\ is_both_declarated(base(based), base(derived))
         THEN "true"                                            \* d& => b&
    ELSE IF is_reference(derived) /\ is_reference(based)
            /\ is_const(base(derived)) /\ is_const(base(based))
            /\ is_both_declarated(base(base(based)), base(base(derived)))
         THEN "true"                                            \* const d& => const b&
    ELSE IF is_reference(derived) /\ is_reference(based)
            /\ is_const(base(derived)) /\ ~has_base(base(based))
         THEN "error"
    ELSE IF is_reference(derived) /\ is_reference(based)
            /\ is_const(base(derived))
            /\ is_both_declarated(base(base(based)), base(derived))
         THEN "true"                                            \* d& => const b&
    ELSE "false"

\* __test_derived_to_based without the loop over the access of the bases
test_derived_to_based_any_access(source, target) ==
    LET derived == base_type(source)
        based == base_type(target)
    IN  IF ~(isinstance(derived, "declarated_t")
             /\ is_class_t(derived[1].declaration))
        THEN "false"
        ELSE IF ~(isinstance(based, "declarated_t")
                  /\ is_class_t(based[1].declaration))
        THEN "false"
        ELSE IF ~is_base_and_derived(based[1].declaration, derived[1].declaration)
        THEN "false"
        ELSE derived_to_based_shapes(source, target)

test_derived_to_based(source, target) ==
    LET derived == base_type(source)
        based == base_type(target)
    IN  IF ~(isinstance(derived, "declarated_t")
             /\ is_class_t(derived[1].declaration))
        THEN "false"
        ELSE IF ~(isinstance(based, "declarated_t")
                  /\ is_class_t(based[1].declaration))
        THEN "false"
        ELSE IF ~is_base_and_derived(based[1].declaration, derived[1].declaration)
        THEN "false"
        ELSE IF ~\E b \in recursive_bases(derived[1].declaration) :
                    /\ b.related_class = based[1].declaration
                    /\ b.access_type # "private"
        THEN "false"
        ELSE derived_to_based_shapes(source, target)

-----------------------------------------------------------------------------
(* is_convertible (the method), cut at its recursive calls.  Each piece     *)
(* yields what the call does next: return a value, or call is_convertible   *)
(* on other operands and resume at `pc` (loop index `i`).                   *)

Return(value) ==
    [op |-> "return", value |-> value, source |-> <<>>, target |-> <<>>,
     pc |-> "", i |-> 0]

Invoke(source, target, pc, i) ==
    [op |-> "call", value |-> "", source |-> source, target |-> target,
     pc |-> pc, i |-> i]

\* for constructor in constructors: skip unless one argument, else recurse
\* the loop over the constructors, passing over the artificial ones
RECURSIVE is_convertible_constructors_declared(_, _, _)
is_convertible_constructors_declared(source, target, i) ==
    IF ~(isinstance(target, "declarated_t") /\ is_class_t(target[1].declaration))
    THEN Return("false")
    ELSE LET constructors == decls[target[1].declaration].constructors
         IN  IF i > Len(constructors) THEN Return("false")
             ELSE IF \/ 1 # Len(constructors[i].arguments)
                     \/ constructors[i].is_artificial
                  THEN is_convertible_constructors_declared(source, target, i + 1)
             ELSE Invoke(source, constructors[i].arguments[1], "constructors", i)

RECURSIVE is_convertible_constructors(_, _, _)
is_convertible_constructors(source, target, i) ==
    IF ~(isinstance(target, "declarated_t") /\ is_class_t(target[1].declaration))
    THEN Return("false")
    ELSE LET constructors == decls[target[1].declaration].constructors
         IN  IF i > Len(constructors) THEN Return("false")
             ELSE IF 1 # Len(constructors[i].arguments)
                  THEN is_convertible_constructors(source, target, i + 1)
             ELSE Invoke(source, constructors[i].arguments[1], "constructors", i)

\* for operator in casting_operators: recurse on its return type
is_convertible_casting_operators(source, target, i) ==
    IF /\ isinstance(source, "declarated_t")
       /\ is_class_t(source[1].declaration)
       /\ i <= Len(decls[source[1].declaration].casting_operators)
    THEN Invoke(decls[source[1].declaration].casting_operators[i].return_type,
                target, "casting_operators", i)
    ELSE is_convertible_constructors(source, target, 1)

\* enum could be converted to any integral type
enum_to_fundamental(source, target) ==
    /\ isinstance(source, "declarated_t")
    /\ is_enumeration_t(source[1].declaration)
    /\ is_fundamental(target)
    /\ ~is_void(target)

is_convertible_fundamental(source, target) ==
    IF test_fundamental__to__fundamental(source, target) THEN Return("true")
    ELSE IF test_pointer_to_func_or_mv__to__func_or_mv(source, target)
         THEN Return("true")
    ELSE IF test_derived_to_based(source, target) # "false"
         THEN Return(test_derived_to_based(source, target))
    ELSE IF enum_to_fundamental(source, target) THEN Return("true")
    ELSE is_convertible_casting_operators(source, target, 1)

\* __test_ref_x__to__y up to its call of is_convertible(source.base, int_t)
test_ref_x__to__y(source, target) ==
    IF ~is_reference(source) THEN is_convertible_fundamental(source, target)
    ELSE IF is_fundamental(base(source)) /\ is_fundamental(target)
         THEN Return("true")
    ELSE Invoke(base(source), int_t, "ref_x__to__y", 0)

\* __test_ref_x__to__y from the value `r` of that call on
test_ref_x__to__y_resume(source, target, r) ==
    IF r = "true" /\ is_enum(target) THEN Return("true")
    ELSE IF copy_constructible_target(target) # "false"
         THEN Return(copy_constructible_target(target))
    ELSE is_convertible_fundamental(source, target)

is_convertible_ref_x(source, target) ==
    IF test_ref_x__to__x(source, target) # "false"
    THEN Return(test_ref_x__to__x(source, target))
    ELSE test_ref_x__to__y(source, target)

\* __test_const_ref_x__to__y up to is_convertible(source.base.base, int_t)
test_const_ref_x__to__y(source, target) ==
    IF ~is_reference(source) \/ ~is_const(base(source))
    THEN is_convertible_ref_x(source, target)
    ELSE IF is_fundamental(base(base(source))) /\ is_fundamental(target)
         THEN Return("true")
    ELSE Invoke(base(base(source)), int_t, "const_ref_x__to__y", 0)

test_const_ref_x__to__y_resume(source, target, r) ==
    IF r = "true" /\ is_enum(target) THEN Return("true")
    ELSE IF copy_constructible_target(target) # "false"
         THEN Return(copy_constructible_target(target))
    ELSE is_convertible_ref_x(source, target)

\* is_convertible from its first line to its first recursive call
\* is_convertible without `if is_array(source) or is_array(target)`
is_convertible_enter_arrays(source, target) ==
    IF test_trivial(source, target) THEN Return("true")
    ELSE IF test_const_x_ref__to__x(source, target) # "false"
         THEN Return(test_const_x_ref__to__x(source, target))
    ELSE test_const_ref_x__to__y(source, target)

is_convertible_enter(source, target) ==
    IF test_trivial(source, target) THEN Return("true")
    ELSE IF is_array(source) \/ is_array(target) THEN Return("false")
    ELSE IF test_const_x_ref__to__x(source, target) # "false"
         THEN Return(test_const_x_ref__to__x(source, target))
    ELSE test_const_ref_x__to__y(source, target)

\* is_convertible resumed at frame.pc with the value `r` of the nested call;
\* an exception raised by the nested call passes through
is_convertible_resume(frame, r) ==
    IF r = "error" THEN Return("error")
    ELSE IF frame.pc = "const_ref_x__to__y"
         THEN test_const_ref_x__to__y_resume(frame.source, frame.target, r)
    ELSE IF frame.pc = "ref_x__to__y"
         THEN test_ref_x__to__y_resume(frame.source, frame.target, r)
    ELSE IF r = "true" THEN Return("true")
    ELSE IF frame.pc = "casting_operators"
         THEN is_convertible_casting_operators(frame.source, frame.target,
                                               frame.i + 1)
    ELSE is_convertible_constructors(frame.source, frame.target, frame.i + 1)

-----------------------------------------------------------------------------
(* type_traits.py: is_noncopyable                                           *)

NoncopyableMarkers == {"::boost::noncopyable", "::boost::noncopyable_::noncopyable"}

RECURSIVE is_noncopyable(_)

\* class_t.find_noncopyable_vars: the member variables whose own type is a
\* noncopyable class
find_noncopyable_vars(class_) ==
    {i \in DOMAIN decls[class_].variables :
        /\ is_class(decls[class_].variables[i])
        /\ is_noncopyable(apply_sequence(decls[class_].variables[i]).declaration)}

\* __is_noncopyable_single with its first test turned round
is_noncopyable_single_inverted(class_) ==
    IF /\ has_copy_constructor(class_)
       /\ has_public_constructor(class_)
       /\ has_public_assign(class_)
       /\ has_public_destructor(class_)
    THEN TRUE
    ELSE find_noncopyable_vars(class_) # {}

is_noncopyable_single(class_) ==
    IF /\ has_copy_constructor(class_)
       /\ has_public_constructor(class_)
       /\ has_public_assign(class_)
       /\ has_public_destructor(class_)
    THEN FALSE
    ELSE find_noncopyable_vars(class_) # {}

\* the body of `for base_desc in class_decl.recursive_bases`: TRUE when it
\* returns True for this base
is_noncopyable_base(related_class) ==
    \/ decls[related_class].decl_string \in NoncopyableMarkers
    \/ /\ ~has_copy_constructor(related_class)
       /\ IF find_copy_constructor(related_class) # <<>>
          THEN find_copy_constructor(related_class)[1].access_type = "private"
          ELSE is_noncopyable_single(related_class)
    \/ is_noncopyable_single(related_class)

\* is_noncopyable with the loop over the bases ahead of the test of the
\* user-declared public copy constructor
is_noncopyable_bases_first(class_) ==
    LET copy_ == find_copy_constructor(class_)
    IN  IF is_union(class_) THEN FALSE
        ELSE IF decls[class_].is_abstract THEN TRUE
        ELSE IF \E base_desc \in recursive_bases(class_) :
                    is_noncopyable_base(base_desc.related_class)
             THEN TRUE
        ELSE IF copy_ # <<>> /\ copy_[1].access_type = "public"
                /\ ~copy_[1].is_artificial
             THEN FALSE
        ELSE IF ~has_copy_constructor(class_) THEN TRUE
        ELSE IF ~has_public_constructor(class_) THEN TRUE
        ELSE IF has_destructor(class_) /\ ~has_public_destructor(class_) THEN TRUE
        ELSE is_noncopyable_single(class_)

\* is_noncopyable with the test of the user-declared public copy constructor
\* ahead of the test of is_abstract
is_noncopyable_copy_first(class_) ==
    LET copy_ == find_copy_constructor(class_)
    IN  IF is_union(class_) THEN FALSE
        ELSE IF copy_ # <<>> /\ copy_[1].access_type = "public"
                /\ ~copy_[1].is_artificial
             THEN FALSE
        ELSE IF decls[class_].is_abstract THEN TRUE
        ELSE IF \E base_desc \in recursive_bases(class_) :
                    is_noncopyable_base(base_desc.related_class)
             THEN TRUE
        ELSE IF ~has_copy_constructor(class_) THEN TRUE
        ELSE IF ~has_public_constructor(class_) THEN TRUE
        ELSE IF has_destructor(class_) /\ ~has_public_destructor(class_) THEN TRUE
        ELSE is_noncopyable_single(class_)

is_noncopyable(class_) ==
    LET copy_ == find_copy_constructor(class_)
    IN  IF is_union(class_) THEN FALSE
        ELSE IF decls[class_].is_abstract THEN TRUE
        ELSE IF copy_ # <<>> /\ copy_[1].access_type = "public"
                /\ ~copy_[1].is_artificial
             THEN FALSE
        ELSE IF \E base_desc \in recursive_bases(class_) :
                    is_noncopyable_base(base_desc.related_class)
             THEN TRUE
        ELSE IF ~has_copy_constructor(class_) THEN TRUE
        ELSE IF ~has_public_constructor(class_) THEN TRUE
        ELSE IF has_destructor(class_) /\ ~has_public_destructor(class_) THEN TRUE
        ELSE is_noncopyable_single(class_)

-----------------------------------------------------------------------------
(* Bounds, the stores and the operand types of the model                    *)

\* inheritance edges and members declared in one store
MaxMembers == 2
\* nested is_convertible calls before the interpreter raises RecursionError
MaxDepth == 6

D == declarated_t("D")
M == declarated_t("M")
B == declarated_t("B")
E == declarated_t("E")
free_function_type_t == calldef_type_t("free_function_type_t")

Feature(kind, cls, related_class, access_type, type, is_artificial) ==
    [kind |-> kind, cls |-> cls, related_class |-> related_class,
     access_type |-> access_type, type |-> type, is_artificial |-> is_artificial]

BaseFeatures ==
    {Feature("base", "D", "B", a, <<>>, FALSE) : a \in {"public", "protected", "private"}}
    \cup {Feature("base", "D", "M", "public", <<>>, FALSE)}
    \cup {Feature("base", "M", "B", "public", <<>>, FALSE)}

ConstructorFeatures ==
    {Feature("constructor", "B", "", "public", reference_t(const_t(B)), TRUE),
     Feature("constructor", "B", "", "public", reference_t(const_t(B)), FALSE),
     Feature("constructor", "B", "", "private", reference_t(const_t(B)), FALSE),
     Feature("constructor", "B", "", "public", D, FALSE),
     Feature("constructor", "B", "", "public", pointer_t(void_t), FALSE),
     Feature("constructor", "B", "", "public", <<>>, TRUE),
     Feature("constructor", "D", "", "public", B, FALSE)}

CastingFeatures ==
    {Feature("casting_operator", "D", "", "public", B, FALSE),
     Feature("casting_operator", "D", "", "public", int_t, FALSE)}

Features == BaseFeatures \cup ConstructorFeatures \cup CastingFeatures

\* one edge per (derived, base), one member per signature
WellFormed(S) ==
    \A f, g \in S :
        (f.kind = g.kind /\ f.cls = g.cls /\ f.related_class = g.related_class
            /\ f.type = g.type) => f = g

Stores == {S \in SUBSET Features : Cardinality(S) <= MaxMembers /\ WellFormed(S)}

\* the orders in which the members S can have been declared
Orders(S) ==
    {s \in [1..Cardinality(S) -> S] : \A i, j \in DOMAIN s : s[i] = s[j] => i = j}

Members(S, kind, cls) == {f \in S : f.kind = kind /\ f.cls = cls}

PlainClass(S, cls, constructors, casting_operators) ==
    class_t("class", FALSE, cls,
            {hierarchy_info_t(f.related_class, f.access_type) :
                f \in Members(S, "base", cls)},
            [i \in DOMAIN constructors |->
                constructor_t(IF constructors[i].type = <<>> THEN <<>>
                              ELSE <<constructors[i].type>>,
                              constructors[i].access_type,
                              constructors[i].is_artificial)],
            [i \in DOMAIN casting_operators |->
                casting_operator_t(casting_operators[i].type)],
            <<>>, <<>>, <<>>)

OperandLeaves == {int_t, D, B}

OperandTypes ==
    UNION {{X, const_t(X), pointer_t(X), reference_t(X), pointer_t(const_t(X)),
            reference_t(const_t(X)), array_t(X, 2)} : X \in OperandLeaves}
    \cup {pointer_t(void_t), E, pointer_t(free_function_type_t)}
    \cup {declarated_t(d) : d \in ClassDeclarations}
    \cup {array_t(pointer_t(int_t), 2)}

Frame(source, target) == [source |-> source, target |-> target, pc |-> "enter", i |-> 0]

NoCall == [source |-> <<>>, target |-> <<>>]

-----------------------------------------------------------------------------
(* The specification of is_convertible                                      *)

Init ==
    /\ \E S \in Stores :
         \E cs \in [ClassNames -> UNION {Orders(Members(S, "constructor", c)) : c \in ClassNames}] :
           \E os \in [ClassNames -> UNION {Orders(Members(S, "casting_operator", c)) : c \in ClassNames}] :
             /\ \A c \in ClassNames : cs[c] \in Orders(Members(S, "constructor", c))
             /\ \A c \in ClassNames : os[c] \in Orders(Members(S, "casting_operator", c))
             /\ decls = [c \in ClassNames |-> PlainClass(S, c, cs[c], os[c])]
    /\ stack = <<>>
    /\ ret = "none"
    /\ call = NoCall
    /\ result = "none"
    /\ nc_query = "none"
    /\ nc_result = "none"
    /\ operand = NoOperand
    /\ trait = "none"
    /\ returned = NoValue
    /\ held = NoCall
    /\ global_ns = NoNamespace

Top == stack[Len(stack)]

\* what the running call does next: return to its caller, or call deeper
Apply(o) ==
    LET n == Len(stack)
    IN  IF o.op = "call" /\ n < MaxDepth
        THEN /\ stack' = Append([stack EXCEPT ![n].pc = o.pc, ![n].i = o.i],
                                Frame(normalize(o.source), normalize(o.target)))
             /\ ret' = "none"
             /\ UNCHANGED result
        ELSE LET value == IF o.op = "call" THEN "error" ELSE o.value
             IN  /\ stack' = SubSeq(stack, 1, n - 1)
                 /\ ret' = IF n = 1 THEN "none" ELSE value
                 /\ result' = IF n = 1 THEN value ELSE result

\* is_convertible(source, target): module level function
Call ==
    /\ stack = <<>>
    /\ call = NoCall
    /\ \E source, target \in OperandTypes :
          /\ stack' = <<Frame(normalize(source), normalize(target))>>
          /\ call' = [source |-> source, target |-> target]
          /\ held' = [source |-> normalize_argument(source),
                      target |-> normalize_argument(target)]
    /\ result' = "none"
    /\ ret' = "none"
    /\ UNCHANGED <<decls, global_ns, nc_query, nc_result, operand, trait, returned>>

Enter ==
    /\ stack # <<>>
    /\ Top.pc = "enter"
    /\ Apply(is_convertible_enter(Top.source, Top.target))
    /\ UNCHANGED <<decls, global_ns, held, call, nc_query, nc_result, operand, trait, returned>>

Resume(pc) ==
    /\ stack # <<>>
    /\ Top.pc = pc
    /\ ret \in {"true", "false"}
    /\ Apply(is_convertible_resume(Top, ret))
    /\ UNCHANGED <<decls, global_ns, held, call, nc_query, nc_result, operand, trait, returned>>

ResumeConstRefXToY == Resume("const_ref_x__to__y")
ResumeRefXToY == Resume("ref_x__to__y")
ResumeCastingOperators == Resume("casting_operators")
ResumeConstructors == Resume("constructors")

\* an exception of the nested call leaves the calling frame too
Raise ==
    /\ stack # <<>>
    /\ Top.pc # "enter"
    /\ ret = "error"
    /\ Apply(is_convertible_resume(Top, ret))
    /\ UNCHANGED <<decls, global_ns, held, call, nc_query, nc_result, operand, trait, returned>>

\* the caller has taken the result; the engine keeps nothing of the call
Forget ==
    /\ stack = <<>>
    /\ call # NoCall
    /\ call' = NoCall
    /\ held' = NoCall
    /\ result' = "none"
    /\ UNCHANGED <<decls, global_ns, stack, ret, nc_query, nc_result, operand, trait, returned>>

Next ==
    \/ Call
    \/ Forget
    \/ Enter
    \/ ResumeConstRefXToY
    \/ ResumeRefXToY
    \/ ResumeCastingOperators
    \/ ResumeConstructors
    \/ Raise

Spec == Init /\ [][Next]_vars

-----------------------------------------------------------------------------
(* Properties of is_convertible                                             *)

Done == stack = <<>> /\ result # "none"

Called(source, target) ==
    Done /\ call = [source |-> source, target |-> target]

Bases(derived, based) ==
    {b \in recursive_bases(derived) : b.related_class = based}

OneArgument(class_) ==
    {i \in DOMAIN decls[class_].constructors :
        Len(decls[class_].constructors[i].arguments) = 1}

\* no casting operator, and no one-argument constructor but a copy constructor
NoConversions(class_) ==
    /\ decls[class_].casting_operators = <<>>
    /\ \A i \in OneArgument(class_) :
          is_copy_constructor(decls[class_].constructors[i].arguments, class_)

\* C1: a (source, target) pair met again during the recursive descent is not
\* recursed into again: no frame of the nested calls repeats the operands of a
\* frame beneath it.
C1_VisitedPairGuard ==
    \A i, j \in DOMAIN stack :
        (i < j) => <<stack[i].source, stack[i].target>>
                       # <<stack[j].source, stack[j].target>>

\* C2: Derived publicly inheriting Base, neither with conversion operators or
\* converting constructors: Derived => Base and Derived* => Base* are
\* convertible, Base* => Derived* is not.
C2_PublicDerivedToBase ==
    \A d, b \in ClassNames :
        (/\ \E e \in Bases(d, b) : e.access_type = "public"
         /\ NoConversions(d) /\ NoConversions(b))
        => /\ Called(declarated_t(d), declarated_t(b)) => result = "true"
           /\ Called(pointer_t(declarated_t(d)), pointer_t(declarated_t(b)))
                  => result = "true"
           /\ Called(pointer_t(declarated_t(b)), pointer_t(declarated_t(d)))
                  => result = "false"

\* D inherits B only through M, and D* => B* was found convertible
C2_Witness ==
    /\ Called(pointer_t(D), pointer_t(B))
    /\ decls["D"].bases = {hierarchy_info_t("M", "public")}
    /\ decls["M"].bases = {hierarchy_info_t("B", "public")}
    /\ result = "true"

TakesDerived(class_, derived) ==
    \E i \in OneArgument(class_) :
        base_type(decls[class_].constructors[i].arguments[1]) = declarated_t(derived)

PrivateOnly(d, b) ==
    Bases(d, b) # {} /\ \A e \in Bases(d, b) : e.access_type = "private"

\* C3 as stated: every entry for Base in Derived's base list private, Derived
\* without casting operator, Base without a constructor taking Derived:
\* Derived => Base is not convertible.
C3_Original ==
    \A d, b \in ClassNames :
        (/\ PrivateOnly(d, b)
         /\ decls[d].casting_operators = <<>>
         /\ ~TakesDerived(b, d)
         /\ Called(declarated_t(d), declarated_t(b)))
        => result = "false"

\* C3, amended: ... and Base has no one-argument constructor other than a copy
\* constructor: Derived => Base is not convertible.
C3_PrivateInheritance ==
    \A d, b \in ClassNames :
        (/\ PrivateOnly(d, b)
         /\ decls[d].casting_operators = <<>>
         /\ \A i \in OneArgument(b) :
               is_copy_constructor(decls[b].constructors[i].arguments, b)
         /\ Called(declarated_t(d), declarated_t(b)))
        => result = "false"

C3_Witness ==
    /\ Called(D, B)
    /\ PrivateOnly("D", "B")
    /\ OneArgument("B") # {}
    /\ result = "false"

DerivedToBaseShapes(d, b) ==
    {<<d, b>>,
     <<pointer_t(d), pointer_t(b)>>,
     <<pointer_t(const_t(d)), pointer_t(const_t(b))>>,
     <<pointer_t(d), pointer_t(const_t(b))>>,
     <<reference_t(d), reference_t(b)>>,
     <<reference_t(const_t(d)), reference_t(const_t(b))>>,
     <<reference_t(d), reference_t(const_t(b))>>}

\* C4: for Derived publicly inheriting Base, each of the seven shapes of the
\* derived-to-base rule is convertible, the const-adding ones included.
C4_SevenShapes ==
    \A d, b \in ClassNames :
        (/\ \E e \in Bases(d, b) : e.access_type = "public"
         /\ NoConversions(d) /\ NoConversions(b))
        => \A shape \in DerivedToBaseShapes(declarated_t(d), declarated_t(b)) :
              Called(shape[1], shape[2]) => result = "true"

\* C5: is_convertible(T, T) is true for every type expression T.
C5_Reflexive ==
    (Done /\ call.source = call.target) => result = "true"

C5_Witness ==
    Called(array_t(D, 2), array_t(D, 2)) /\ result = "true"

\* C6: const X& => X is not convertible when X's only copy constructor is
\* private.
C6_PrivateCopyConstructor ==
    \A x \in ClassNames :
        (/\ find_copy_constructor(x) # <<>>
         /\ ~has_copy_constructor(x)
         /\ Called(reference_t(const_t(declarated_t(x))), declarated_t(x)))
        => result = "false"

\* X => X, X => const X, X => X&, X => const X&
IdentityOrQualification(source, target) ==
    \/ is_same(source, target)
    \/ is_const(target) /\ is_same(source, base(target))
    \/ is_reference(target) /\ is_same(source, base(target))
    \/ is_reference(target) /\ is_const(base(target))
          /\ is_same(source, base(base(target)))

\* X[n] => X*, X[n] => const X*
ArrayDecay(source, target) ==
    /\ is_array(source) /\ is_pointer(target)
    /\ \/ ~is_const(source) /\ is_same(base_type(source), base(target))
       \/ is_const(base(target)) /\ is_same(base_type(source), base(base(target)))

\* C7 as stated: with an array as source or target, anything but identity,
\* qualification addition and array decay is not convertible.
C7_Original ==
    (/\ Done
     /\ is_array(call.source) \/ is_array(call.target)
     /\ ~IdentityOrQualification(call.source, call.target)
     /\ ~ArrayDecay(call.source, call.target))
    => result = "false"

\* C7, amended: the array exclusion comes after the whole trivial test: with an
\* array as source or target, a pair that none of the trivial rules accepts is
\* not convertible.
C7_ArrayExclusion ==
    (/\ Done
     /\ is_array(call.source) \/ is_array(call.target)
     /\ ~test_trivial(normalize(call.source), normalize(call.target)))
    => result = "false"

\* an array source and a class target that has a constructor from void*
C7_Witness ==
    /\ Called(array_t(int_t, 2), B)
    /\ \E i \in OneArgument("B") :
          decls["B"].constructors[i].arguments[1] = pointer_t(void_t)
    /\ result = "false"

OnlyArtificialCopyConstructor(class_) ==
    /\ Len(decls[class_].constructors) = 1
    /\ decls[class_].constructors[1].is_artificial
    /\ is_copy_constructor(decls[class_].constructors[1].arguments, class_)

\* C8 as stated: an artificial constructor never makes the conversion true:
\* with only an artificial copy constructor on T, const T => T is not found
\* convertible.
C8_Original ==
    \A t \in ClassNames :
        (/\ OnlyArtificialCopyConstructor(t)
         /\ Called(const_t(declarated_t(t)), declarated_t(t)))
        => result # "true"

\* C8, amended: the constructor rule takes every one-argument constructor,
\* artificial or not: with only an artificial copy constructor on T,
\* const T => T is convertible.
C8_ArtificialConstructor ==
    \A t \in ClassNames :
        (/\ OnlyArtificialCopyConstructor(t)
         /\ Called(const_t(declarated_t(t)), declarated_t(t)))
        => result = "true"

C8_Witness ==
    /\ Called(const_t(B), B)
    /\ OnlyArtificialCopyConstructor("B")
    /\ result = "true"

-----------------------------------------------------------------------------
(* The specification of is_noncopyable                                      *)

CopyConstructors(cls) ==
    {<<>>,
     <<constructor_t(<<reference_t(const_t(declarated_t(cls)))>>, "public", TRUE)>>,
     <<constructor_t(<<reference_t(const_t(declarated_t(cls)))>>, "public", FALSE)>>,
     <<constructor_t(<<reference_t(const_t(declarated_t(cls)))>>, "private", FALSE)>>}

DefaultConstructors == {<<>>, <<constructor_t(<<>>, "public", FALSE)>>}

AssignOperators == {<<>>, <<member_t("public")>>, <<member_t("private")>>}

Destructors == {<<>>, <<member_t("public")>>, <<member_t("private")>>}

\* D may derive from B and hold an M; B may carry the name of the marker;
\* M is either plainly copyable or has a private copy constructor
InitNC ==
    /\ \E class_type \in {"class", "union"}, is_abstract \in BOOLEAN,
          bases \in SUBSET {hierarchy_info_t("B", "public")},
          copy \in CopyConstructors("D"), ctor \in DefaultConstructors,
          assign \in AssignOperators, destructor \in Destructors,
          variables \in {<<>>, <<M>>},
          b_name \in {"::B", "::boost::noncopyable"},
          b_copy \in CopyConstructors("B"), b_ctor \in DefaultConstructors,
          b_assign \in {<<>>, <<member_t("public")>>},
          b_destructor \in {<<>>, <<member_t("public")>>},
          m_copy \in {<<constructor_t(<<reference_t(const_t(M))>>, a, FALSE)>> :
                         a \in {"public", "private"}} :
          decls = [c \in ClassNames |->
                     IF c = "D"
                     THEN class_t(class_type, is_abstract, "::D", bases,
                                  copy \o ctor, <<>>, destructor, assign, variables)
                     ELSE IF c = "B"
                     THEN class_t("class", FALSE, b_name, {}, b_copy \o b_ctor,
                                  <<>>, b_destructor, b_assign, <<>>)
                     ELSE class_t("class", FALSE, "::M", {}, m_copy, <<>>,
                                  <<>>, <<>>, <<>>)]
    /\ stack = <<>>
    /\ ret = "none"
    /\ call = NoCall
    /\ result = "none"
    /\ nc_query = "none"
    /\ nc_result = "none"
    /\ operand = NoOperand
    /\ trait = "none"
    /\ returned = NoValue
    /\ held = NoCall
    /\ global_ns = NoNamespace

\* is_noncopyable(class_)
Query ==
    /\ nc_query = "none"
    /\ \E class_ \in ClassNames :
          /\ nc_query' = class_
          /\ nc_result' = IF is_noncopyable(class_) THEN "true" ELSE "false"
    /\ UNCHANGED <<decls, global_ns, held, stack, ret, call, result, operand, trait, returned>>

NextNC == Query

SpecNC == InitNC /\ [][NextNC]_vars

-----------------------------------------------------------------------------
(* Properties of is_noncopyable                                             *)

PrivateCopyConstructor(class_) ==
    /\ find_copy_constructor(class_) # <<>>
    /\ \A i \in DOMAIN find_copy_constructor(class_) :
          find_copy_constructor(class_)[i].access_type = "private"

\* C9: a non-union class whose copy constructor is private is noncopyable,
\* whatever its bases and other members are.
C9_PrivateCopyNoncopyable ==
    \A c \in ClassNames :
        (nc_query = c /\ ~is_union(c) /\ PrivateCopyConstructor(c))
        => nc_result = "true"

\* all else of D public, a base, and only the copy constructor private
C9_Witness ==
    /\ nc_query = "D"
    /\ ~is_union("D") /\ ~decls["D"].is_abstract
    /\ PrivateCopyConstructor("D")
    /\ has_public_constructor("D") /\ has_public_assign("D")
    /\ has_public_destructor("D")
    /\ decls["D"].bases # {} /\ decls["D"].variables = <<>>
    /\ ~is_noncopyable_base("B")
    /\ nc_result = "true"

AllPublic(class_) ==
    /\ has_copy_constructor(class_)
    /\ has_public_constructor(class_)
    /\ has_public_assign(class_)
    /\ has_public_destructor(class_)
    /\ find_noncopyable_vars(class_) = {}

\* C10 as stated: a class with a public copy constructor, a public default
\* constructor, a public assignment operator, a public destructor and no
\* member of noncopyable type is copyable.
C10_Original ==
    \A c \in ClassNames :
        (nc_query = c /\ AllPublic(c)) => nc_result = "false"

\* C10, amended: ... that is not abstract and none of whose bases is the
\* boost::noncopyable marker, has a private copy constructor or is noncopyable
\* taken alone, is copyable.
C10_AllPublicCopyable ==
    \A c \in ClassNames :
        (/\ nc_query = c /\ AllPublic(c)
         /\ ~decls[c].is_abstract
         /\ \A b \in recursive_bases(c) : ~is_noncopyable_base(b.related_class))
        => nc_result = "false"

\* an artificial copy constructor, so that the bases and the rest are looked at
C10_Witness ==
    /\ nc_query = "D" /\ AllPublic("D")
    /\ ~is_union("D") /\ ~decls["D"].is_abstract
    /\ find_copy_constructor("D")[1].is_artificial
    /\ decls["D"].bases # {} /\ ~is_noncopyable_base("B")
    /\ decls["D"].variables # <<>>
    /\ nc_result = "false"

UserPublicCopyConstructor(class_) ==
    /\ find_copy_constructor(class_) # <<>>
    /\ find_copy_constructor(class_)[1].access_type = "public"
    /\ ~find_copy_constructor(class_)[1].is_artificial

\* C11: a non-union, non-abstract class with a public copy constructor that
\* is not artificial is copyable, whatever its bases and its destructor are.
C11_UserCopyShortCircuit ==
    \A c \in ClassNames :
        (/\ nc_query = c
         /\ decls[c].class_type # "union"
         /\ ~decls[c].is_abstract
         /\ UserPublicCopyConstructor(c))
        => nc_result = "false"

\* the base is the marker and has a private copy constructor, and the
\* destructor of D is private
C11_Witness ==
    /\ nc_query = "D"
    /\ decls["D"].class_type # "union" /\ ~decls["D"].is_abstract
    /\ UserPublicCopyConstructor("D")
    /\ \E b \in recursive_bases("D") :
          /\ decls[b.related_class].decl_string \in NoncopyableMarkers
          /\ PrivateCopyConstructor(b.related_class)
    /\ decls["D"].destructor # <<>>
    /\ decls["D"].destructor[1].access_type = "private"
    /\ nc_result = "false"

\* C12: is_noncopyable of a union is false, whatever the union declares.
C12_UnionCopyable ==
    \A c \in ClassNames :
        (nc_query = c /\ decls[c].class_type = "union") => nc_result = "false"

\* a union that is abstract, has a private copy constructor, a base that is
\* the marker and a member of noncopyable type
C12_Witness ==
    /\ nc_query = "D"
    /\ decls["D"].class_type = "union"
    /\ decls["D"].is_abstract
    /\ PrivateCopyConstructor("D")
    /\ \E b \in recursive_bases("D") :
          decls[b.related_class].decl_string \in NoncopyableMarkers
    /\ find_noncopyable_vars("D") # {}
    /\ nc_result = "false"

\* C13: is_noncopyable of a non-union class whose is_abstract is set is true,
\* a public user-declared copy constructor notwithstanding.
C13_AbstractNoncopyable ==
    \A c \in ClassNames :
        (nc_query = c /\ decls[c].class_type # "union" /\ decls[c].is_abstract)
        => nc_result = "true"

C13_Witness ==
    /\ nc_query = "D"
    /\ decls["D"].class_type # "union"
    /\ decls["D"].is_abstract
    /\ UserPublicCopyConstructor("D")
    /\ has_public_constructor("D") /\ has_public_assign("D")
    /\ has_public_destructor("D")
    /\ decls["D"].bases = {} /\ decls["D"].variables = <<>>
    /\ nc_result = "true"

-----------------------------------------------------------------------------
(* The specification of the traits over type expressions                    *)

\* wrapper layers of a type expression, the leaf not counted
MaxWrap == 3
\* largest array size
MaxSize == 1

WrapperLayers ==
    {Layer(cls, 0, "") : cls \in {"const_t", "volatile_t", "pointer_t", "reference_t"}}
    \cup {Layer("array_t", n, "") : n \in 0..MaxSize}

\* a reference is the outermost layer or absent
Wrappers ==
    {w \in UNION {[1..n -> WrapperLayers] : n \in 0..MaxWrap} :
        \A i \in DOMAIN w : w[i].cls = "reference_t" => i = 1}

TraitLeaves ==
    {int_t, D, free_function_type_t, calldef_type_t("member_function_type_t"),
     typedef_t("alias", int_t)}

\* every fundamental kind, bare and under the four qualifier nestings
QualifiedFundamentals ==
    UNION {{fundamental_t(k), const_t(fundamental_t(k)), volatile_t(fundamental_t(k)),
            volatile_t(const_t(fundamental_t(k))), const_t(volatile_t(fundamental_t(k)))} :
           k \in FundamentalClasses}

TraitTypes ==
    {w \o leaf : w \in Wrappers, leaf \in TraitLeaves} \cup QualifiedFundamentals

InitTraits ==
    /\ decls = [c \in ClassNames |->
                  class_t("class", FALSE, c, {}, <<>>, <<>>, <<>>, <<>>, <<>>)]
    /\ stack = <<>>
    /\ ret = "none"
    /\ call = NoCall
    /\ result = "none"
    /\ nc_query = "none"
    /\ nc_result = "none"
    /\ operand \in TraitTypes
    /\ trait = "none"
    /\ returned = NoValue
    /\ held = NoCall
    /\ global_ns = NoNamespace

\* trait `name` applied to operand hands back `v`
Trait(name, v) ==
    /\ trait = "none"
    /\ trait' = name
    /\ returned' = v
    /\ UNCHANGED <<decls, global_ns, held, stack, ret, call, result, nc_query, nc_result, operand>>

IsConst == Trait("is_const", BoolValue(is_const(operand)))
IsVolatile == Trait("is_volatile", BoolValue(is_volatile(operand)))
RemoveConst == Trait("remove_const", TypeValue(remove_const(operand)))
RemoveVolatile == Trait("remove_volatile", TypeValue(remove_volatile(operand)))
RemoveCv == Trait("remove_cv", TypeValue(remove_cv(operand)))
IsPointer == Trait("is_pointer", BoolValue(is_pointer(operand)))
RemovePointer == Trait("remove_pointer", TypeValue(remove_pointer(operand)))
IsReference == Trait("is_reference", BoolValue(is_reference(operand)))
RemoveReference == Trait("remove_reference", TypeValue(remove_reference(operand)))
IsArray == Trait("is_array", BoolValue(is_array(operand)))
IsIntegral == Trait("is_integral", BoolValue(is_integral(operand)))
IsFloatingPoint == Trait("is_floating_point", BoolValue(is_floating_point(operand)))
IsArithmetic == Trait("is_arithmetic", BoolValue(is_arithmetic(operand)))

ArraySize == Trait("array_size", array_size(operand))
ArrayItemType == Trait("array_item_type", array_item_type(operand))

\* the caller hands the type it got back to the next trait
Pass ==
    /\ returned.kind = "type"
    /\ operand' = returned.type
    /\ trait' = "none"
    /\ returned' = NoValue
    /\ UNCHANGED <<decls, global_ns, held, stack, ret, call, result, nc_query, nc_result>>

\* the caller drops a truth value, a number or an exception
Drop ==
    /\ returned.kind \in {"bool", "int", "error"}
    /\ trait' = "none"
    /\ returned' = NoValue
    /\ UNCHANGED <<decls, global_ns, held, stack, ret, call, result, nc_query, nc_result, operand>>

NextTraits ==
    \/ IsConst \/ IsVolatile \/ RemoveConst \/ RemoveVolatile \/ RemoveCv
    \/ IsPointer \/ RemovePointer \/ IsReference \/ RemoveReference
    \/ IsArray \/ ArraySize \/ ArrayItemType
    \/ IsIntegral \/ IsFloatingPoint \/ IsArithmetic
    \/ Pass \/ Drop

SpecTraits == InitTraits /\ [][NextTraits]_vars

-----------------------------------------------------------------------------
(* Properties of the traits over type expressions                           *)

\* equality of type expressions: structural, aliases resolved
Equal(type1, type2) == remove_alias(type1) = remove_alias(type2)

Applied(name) == trait = name /\ returned.kind # "none"

Unqualified(type_) == ~is_const(type_) /\ ~is_volatile(type_)

\* the type under its outer const, volatile and alias layers
RECURSIVE UnderQualifiers(_)
UnderQualifiers(type_) ==
    IF type_[1].cls \in {"const_t", "volatile_t", "typedef_t"}
    THEN UnderQualifiers(base(type_))
    ELSE type_

\* C14: remove_cv is idempotent: applied to its own result it changes nothing.
C14_RemoveCvIdempotent ==
    Applied("remove_cv") => Equal(remove_cv(returned.type), returned.type)

\* C15: one call of remove_cv yields a type that is neither const nor
\* volatile, and of an array type an array of the same size over the
\* unqualified element.
C15_FullyUnqualified ==
    Applied("remove_cv") =>
        /\ Unqualified(returned.type)
        /\ isinstance(UnderQualifiers(operand), "array_t") =>
              /\ isinstance(remove_alias(returned.type), "array_t")
              /\ remove_alias(returned.type)[1].size = UnderQualifiers(operand)[1].size
              /\ Unqualified(base(remove_alias(returned.type)))

\* C16 as stated: remove_pointer is idempotent.
C16_Original ==
    Applied("remove_pointer") =>
        Equal(remove_pointer(returned.type), returned.type)

\* C16, amended: remove_pointer strips one pointer level, so of a pointer to
\* a pointer it leaves a pointer; applied again it changes nothing exactly
\* when what it returned is not a pointer type.
C16_OneLevel ==
    Applied("remove_pointer") =>
        /\ (/\ Len(operand) > 2
            /\ operand[1].cls = "pointer_t"
            /\ operand[2].cls = "pointer_t")
           => /\ Equal(returned.type, base(operand))
              /\ is_pointer(returned.type)
        /\ ~is_pointer(returned.type)
           => Equal(remove_pointer(returned.type), returned.type)

C16_Witness ==
    /\ Applied("remove_pointer")
    /\ operand = pointer_t(pointer_t(int_t))
    /\ returned.type = pointer_t(int_t)
    /\ remove_pointer(returned.type) = int_t

Callable(type_) == isinstance(remove_alias(type_), "calldef_type_t")

\* C17 as stated: for every T, is_pointer(Pointer(T)) and
\* remove_pointer(Pointer(T)) == T, is_reference(Reference(T)) and
\* remove_reference(Reference(T)) == T.
C17_Original ==
    /\ (operand # NoOperand /\ operand[1].cls = "pointer_t") =>
          /\ Applied("is_pointer") => returned.bool
          /\ Applied("remove_pointer") => Equal(returned.type, base(operand))
    /\ (operand # NoOperand /\ operand[1].cls = "reference_t") =>
          /\ Applied("is_reference") => returned.bool
          /\ Applied("remove_reference") => Equal(returned.type, base(operand))

\* C17, amended: the same, but remove_pointer(Pointer(T)) == T only for T
\* that is not a callable type; a pointer to a callable type is handed back
\* unchanged.
C17_RoundTrip ==
    /\ (operand # NoOperand /\ operand[1].cls = "pointer_t") =>
          /\ Applied("is_pointer") => returned.bool
          /\ Applied("remove_pointer") =>
                IF Callable(base(operand))
                THEN Equal(returned.type, operand)
                ELSE Equal(returned.type, base(operand))
    /\ (operand # NoOperand /\ operand[1].cls = "reference_t") =>
          /\ Applied("is_reference") => returned.bool
          /\ Applied("remove_reference") => Equal(returned.type, base(operand))

C17_Witness ==
    /\ Applied("remove_pointer")
    /\ operand = pointer_t(free_function_type_t)
    /\ returned.type = operand

\* C18 as stated: is_array(Array(T, n)), array_size(Array(T, n)) == n and
\* array_item_type(Array(T, n)) == T, for every T, qualified T included.
C18_Original ==
    (operand # NoOperand /\ operand[1].cls = "array_t") =>
        /\ Applied("is_array") => returned.bool
        /\ Applied("array_size") => returned = IntValue(operand[1].size)
        /\ Applied("array_item_type") =>
              returned.kind = "type" /\ Equal(returned.type, base(operand))

\* C18, amended: is_array and array_size as stated; array_item_type hands
\* back T when T carries no qualifier, and the unqualified X when T is
\* Const(X) or Volatile(X).
C18_ArrayRoundTrip ==
    (operand # NoOperand /\ operand[1].cls = "array_t") =>
        /\ Applied("is_array") => returned.bool
        /\ Applied("array_size") => returned = IntValue(operand[1].size)
        /\ Applied("array_item_type") =>
              /\ returned.kind = "type"
              /\ Unqualified(base(operand)) => Equal(returned.type, base(operand))
              /\ (/\ operand[2].cls \in {"const_t", "volatile_t"}
                  /\ Unqualified(base(base(operand))))
                 => Equal(returned.type, base(base(operand)))

C18_Witness ==
    /\ Applied("array_item_type")
    /\ operand = array_t(const_t(int_t), MaxSize)
    /\ returned.type = int_t

Fundamental(type_) == Len(type_) = 1 /\ type_[1].cls \in FundamentalClasses

\* C19 as stated: of is_integral(T) and is_floating_point(T) exactly one
\* holds for every fundamental T, void included, and is_arithmetic(T) is
\* their disjunction.
C19_Original ==
    Fundamental(operand) =>
        /\ Applied("is_integral") => returned.bool = ~is_floating_point(operand)
        /\ Applied("is_floating_point") => returned.bool = ~is_integral(operand)
        /\ Applied("is_arithmetic") =>
              returned.bool = (is_integral(operand) \/ is_floating_point(operand))

\* C19, amended: the same for every fundamental T but void; for void
\* neither holds and is_arithmetic is false.
C19_IntegralOrFloating ==
    Fundamental(operand) =>
        /\ Applied("is_integral") =>
              returned.bool = (operand # void_t /\ ~is_floating_point(operand))
        /\ Applied("is_floating_point") =>
              returned.bool = (operand # void_t /\ ~is_integral(operand))
        /\ Applied("is_arithmetic") =>
              /\ returned.bool = (is_integral(operand) \/ is_floating_point(operand))
              /\ returned.bool = (operand # void_t)

C19_Witness ==
    /\ Applied("is_arithmetic")
    /\ operand = fundamental_t("long_double_t")
    /\ returned.bool
    /\ is_floating_point(operand) /\ ~is_integral(operand)

QualifiedKinds(classes) ==
    UNION {{fundamental_t(classes[i]), const_t(fundamental_t(classes[i])),
            volatile_t(fundamental_t(classes[i])),
            volatile_t(const_t(fundamental_t(classes[i]))),
            const_t(volatile_t(fundamental_t(classes[i])))} : i \in DOMAIN classes}

\* C20: is_integral is true of every integral kind under const, volatile and
\* both, nested in either order; likewise is_floating_point of the floating
\* kinds.
C20_CvInvariant ==
    /\ (Applied("is_integral") /\ operand \in QualifiedKinds(IntegralClasses))
       => returned.bool
    /\ (Applied("is_floating_point") /\ operand \in QualifiedKinds(FloatClasses))
       => returned.bool

-----------------------------------------------------------------------------
(* type_traits.py: the value type of a smart pointer                        *)

\* cpptypes.FUNDAMENTAL_TYPES, by name
FUNDAMENTAL_TYPES == [int |-> int_t]

\* a template argument as it is spelled: [const ]name[*]
ValueTypeStr(has_const, name, has_pointer) ==
    [has_const |-> has_const, name |-> name, has_pointer |-> has_pointer]

\* global_ns.decls(name=value_type_str, function=..., allow_empty=True):
\* the declarations of that very name
global_ns_decls(value_type_str) ==
    IF \/ value_type_str.has_const
       \/ value_type_str.has_pointer
       \/ value_type_str.name \notin DOMAIN global_ns.declarations
    THEN <<>>
    ELSE global_ns.declarations[value_type_str.name]

RECURSIVE find_value_type(_)
find_value_type(value_type_str) ==
    LET found == global_ns_decls(value_type_str)
        has_const == value_type_str.has_const
        has_pointer == value_type_str.has_pointer
        inner == find_value_type(ValueTypeStr(FALSE, value_type_str.name, FALSE))
        consted == IF has_const THEN const_t(inner.type) ELSE inner.type
        pointed == IF has_pointer THEN pointer_t(consted) ELSE consted
    IN  IF found = <<>>
        THEN IF /\ ~has_const /\ ~has_pointer
                /\ value_type_str.name \in DOMAIN FUNDAMENTAL_TYPES
             THEN TypeValue(FUNDAMENTAL_TYPES[value_type_str.name])
             ELSE IF ~(has_const \/ has_pointer) THEN NoneValue
             ELSE IF inner.kind = "None" THEN NoneValue
             ELSE TypeValue(pointed)
        ELSE IF Len(found) = 1 THEN DeclarationValue(found[1])
        ELSE NoneValue

\* the declaration a type stands for after remove_alias, remove_cv and
\* remove_declarated, when it is the smart pointer declaration
is_pointer_declaration(type_) ==
    /\ remove_declarated(remove_cv(remove_alias(type_))).is_declaration
    /\ remove_declarated(remove_cv(remove_alias(type_))).declaration = "smart_ptr"

\* impl_details.is_defined_in_xxx(xxx, cls), cls being the smart pointer
\* declaration
is_defined_in_xxx(xxx) == global_ns.pointer.namespace = xxx

\* internal_type_traits.get_by_name
get_by_name(type_) ==
    IF is_pointer_declaration(type_) /\ global_ns.pointer.kind = "class_t"
    THEN Raised
    ELSE IF is_pointer_declaration(type_)
            /\ global_ns.pointer.kind = "class_declaration_t"
    THEN IF find_value_type(global_ns.pointer.argument).kind # "None"
         THEN find_value_type(global_ns.pointer.argument)
         ELSE Raised
    ELSE Raised

smart_pointer_is_smart_pointer(type_) ==
    IF ~is_pointer_declaration(type_) THEN FALSE
    ELSE IF ~(is_defined_in_xxx("boost") \/ is_defined_in_xxx("std")) THEN FALSE
    ELSE global_ns.pointer.template = "shared_ptr"

smart_pointer_value_type(type_) ==
    IF ~smart_pointer_is_smart_pointer(type_) THEN Raised
    ELSE get_by_name(type_)

auto_ptr_is_smart_pointer(type_) ==
    IF ~is_pointer_declaration(type_) THEN FALSE
    ELSE IF ~is_defined_in_xxx("std") THEN FALSE
    ELSE global_ns.pointer.template = "auto_ptr"

auto_ptr_value_type(type_) ==
    IF ~auto_ptr_is_smart_pointer(type_) THEN Raised
    ELSE get_by_name(type_)

-----------------------------------------------------------------------------
(* The specification of the smart pointer traits                            *)

\* declarations of one name in the global namespace, at most
MaxFound == 2

RECURSIVE Repeated(_, _)
Repeated(x, n) == IF n = 0 THEN <<>> ELSE <<x>> \o Repeated(x, n - 1)

ValueTypeStrs ==
    {ValueTypeStr(c, n, p) : c \in BOOLEAN, n \in {"Foo", "int"}, p \in BOOLEAN}

PointerDeclarations ==
    [kind : {"class_declaration_t", "class_t"},
     namespace : {"boost", "std", "other"},
     template : {"shared_ptr", "auto_ptr", "vector"},
     argument : ValueTypeStrs]

LookupTypes ==
    {declarated_t("smart_ptr"), const_t(declarated_t("smart_ptr")),
     typedef_t("alias", declarated_t("smart_ptr")), int_t}

InitLookup ==
    /\ decls = [c \in ClassNames |->
                  class_t("class", FALSE, c, {}, <<>>, <<>>, <<>>, <<>>, <<>>)]
    /\ stack = <<>>
    /\ ret = "none"
    /\ call = NoCall
    /\ result = "none"
    /\ nc_query = "none"
    /\ nc_result = "none"
    /\ operand \in LookupTypes
    /\ trait = "none"
    /\ returned = NoValue
    /\ held = NoCall
    /\ \E pointer \in PointerDeclarations, n \in 0..MaxFound :
          global_ns = [pointer |-> pointer,
                       declarations |-> [Foo |-> Repeated("Foo", n)]]

SmartPointerIsSmartPointer ==
    Trait("smart_pointer_traits.is_smart_pointer",
          BoolValue(smart_pointer_is_smart_pointer(operand)))

SmartPointerValueType ==
    Trait("smart_pointer_traits.value_type", smart_pointer_value_type(operand))

AutoPtrIsSmartPointer ==
    Trait("auto_ptr_traits.is_smart_pointer",
          BoolValue(auto_ptr_is_smart_pointer(operand)))

AutoPtrValueType ==
    Trait("auto_ptr_traits.value_type", auto_ptr_value_type(operand))

\* the caller is done with what it got
Discard ==
    /\ returned.kind # "none"
    /\ trait' = "none"
    /\ returned' = NoValue
    /\ UNCHANGED <<decls, global_ns, held, stack, ret, call, result, nc_query, nc_result, operand>>

NextLookup ==
    \/ SmartPointerIsSmartPointer \/ SmartPointerValueType
    \/ AutoPtrIsSmartPointer \/ AutoPtrValueType
    \/ Discard

SpecLookup == InitLookup /\ [][NextLookup]_vars

-----------------------------------------------------------------------------
(* Properties of the smart pointer traits                                   *)

\* the smart pointer is known by a forward declaration only, and its
\* template argument is a plain name
ForwardDeclared(namespaces, template) ==
    /\ is_pointer_declaration(operand)
    /\ global_ns.pointer.kind = "class_declaration_t"
    /\ global_ns.pointer.namespace \in namespaces
    /\ global_ns.pointer.template = template
    /\ global_ns.pointer.argument = ValueTypeStr(FALSE, "Foo", FALSE)

\* C21: for a smart pointer known by a forward declaration only, whose
\* template argument names no declaration or more than one, value_type hands
\* back the empty result and raises nothing.
C21_NotFoundIsEmpty ==
    (/\ \/ Applied("smart_pointer_traits.value_type")
           /\ ForwardDeclared({"boost", "std"}, "shared_ptr")
        \/ Applied("auto_ptr_traits.value_type")
           /\ ForwardDeclared({"std"}, "auto_ptr")
     /\ Len(global_ns.declarations["Foo"]) # 1)
    => returned = NoneValue

-----------------------------------------------------------------------------
(* Further properties of the traits                                         *)

\* the two qualifiers, one over the other, over a type that is neither
\* qualified nor an array
BothQualifiers(type_) ==
    /\ Len(type_) > 2
    /\ {type_[1].cls, type_[2].cls} = {"const_t", "volatile_t"}
    /\ type_[3].cls \notin {"const_t", "volatile_t", "array_t"}

\* C22: of Const(Volatile(X)) and of Volatile(Const(X)), X unqualified and not
\* an array, remove_const gives Volatile(X) and remove_volatile gives Const(X).
C22_StripNamedQualifier ==
    BothQualifiers(operand) =>
        /\ Applied("remove_const") =>
              Equal(returned.type, volatile_t(base(base(operand))))
        /\ Applied("remove_volatile") =>
              Equal(returned.type, const_t(base(base(operand))))

\* a pointer to a type that is not callable, under n qualifiers
QualifiedPointer(type_, n) ==
    /\ Len(type_) > n + 1
    /\ \A i \in 1..n : type_[i].cls \in {"const_t", "volatile_t"}
    /\ type_[n + 1].cls = "pointer_t"
    /\ ~Callable(SubSeq(type_, n + 2, Len(type_)))

\* C23: of a pointer to a type that is not callable remove_pointer strips the
\* one pointer layer and keeps the qualifiers over it: Pointer(X) gives X,
\* Const(Pointer(X)) gives Const(X), Volatile(Pointer(X)) gives Volatile(X),
\* Volatile(Const(Pointer(X))) gives Volatile(Const(X)), and
\* Const(Volatile(Pointer(X))) gives a type with no pointer layer above X.
C23_OnePointerLayer ==
    Applied("remove_pointer") =>
        /\ QualifiedPointer(operand, 0) => Equal(returned.type, base(operand))
        /\ QualifiedPointer(operand, 1) =>
              Equal(returned.type, <<operand[1]>> \o base(base(operand)))
        /\ (QualifiedPointer(operand, 2) /\ operand[1].cls = "volatile_t"
                                         /\ operand[2].cls = "const_t") =>
              Equal(returned.type, volatile_t(const_t(base(base(base(operand))))))
        /\ (QualifiedPointer(operand, 2) /\ operand[1].cls = "const_t"
                                         /\ operand[2].cls = "volatile_t") =>
              UnderQualifiers(returned.type)
                  = UnderQualifiers(base(base(base(operand))))

\* the array that is_array finds: under a reference and the qualifiers
ArrayOf(type_) == UnderQualifiers(remove_reference(remove_alias(type_)))

\* C26: for every type that is_array accepts, references to arrays and
\* qualified arrays included, array_item_type returns the element type of
\* that array; for a type that is neither an array nor a pointer it raises.
C26_ItemTypeOfEveryArray ==
    (operand # NoOperand /\ Applied("array_item_type")) =>
        /\ is_array(operand) =>
              /\ returned.kind = "type"
              /\ UnderQualifiers(returned.type)
                    = UnderQualifiers(base(ArrayOf(operand)))
        /\ (~is_array(operand) /\ ~is_pointer(operand)) => returned = Raised

-----------------------------------------------------------------------------
(* Further properties of is_convertible                                     *)

\* C24: an array converts to a pointer, other than to void*, only by decay to
\* a pointer to its element type E or to Const(E); so an array of pointers to
\* int does not convert to a pointer to int.
C24_DecayToElement ==
    (/\ Done
     /\ call.source[1].cls = "array_t"
     /\ call.target[1].cls = "pointer_t"
     /\ call.target # pointer_t(void_t)
     /\ result = "true")
    => \/ Equal(base(call.target), base(call.source))
       \/ Equal(base(call.target), const_t(base(call.source)))

\* C25: is_convertible returns a boolean for every pair of operands and never
\* raises, references to classes against enumerations and forward
\* declarations without a definition included.
C25_Total ==
    Done => result \in {"true", "false"}

====
